---- MODULE Spec2Model ----
(***************************************************************************)
(* Model of the Streamlit background-removal script (src/code_1.py).       *)
(* Every user interaction re-runs the script top to bottom; the only state *)
(* that survives a run is the uploaded file, the format selectbox value    *)
(* and the st.cache_data entry of remove_background_from_bytes.            *)
(* File names and format names are sequences of one-character strings, and *)
(* an image is one pixel together with its colour mode.                    *)
(***************************************************************************)
EXTENDS Integers, Sequences, FiniteSets, TLC

\* ------------------------------------------------------------------ bounds
\* number of script runs explored (page load included)
MaxRuns == 4
\* longest stem put in front of the extension of an enumerated upload name
MaxStemLen == 2

\* --------------------------------------------------------------- constants
White == 255
ExtSep == "."
Sep == "/"

PNG == <<"P", "N", "G">>
JPG == <<"J", "P", "G">>
Formats == {PNG, JPG}

AllowedTypes == {<<"j", "p", "g">>, <<"j", "p", "e", "g">>, <<"p", "n", "g">>}

Prefix == <<"b", "g", "_", "r", "e", "m", "o", "v", "e", "d", "_">>

ErrNotFound == "rembg library not found. Background removal placeholder active."
ErrRemoval == "Error during background removal"
ErrDownload == "Error preparing download"
ErrProcess == "Could not process the image. Please try another one or check the logs."
WarnNotFound == "rembg not found. Install it or replace the background removal function in the code."

\* modes Pillow's PNG writer accepts, among the modes a JPG/PNG upload can have
PngModes == {"L", "LA", "RGB", "RGBA"}

\* ----------------------------------------------------------------- uploads
StemAlphabet == {"a", "."}

Stems == UNION {[1..n -> StemAlphabet] : n \in 0..MaxStemLen}

\* every name the uploader's type filter lets through, up to the bound
Names == {s \o <<ExtSep>> \o t : s \in Stems, t \in AllowedTypes}

PhotoJpeg == <<"p", "h", "o", "t", "o", ".", "j", "p", "e", "g">>

Image(src, mode, px) == [src |-> src, mode |-> mode, px |-> px]

\* Python's None, where an image is expected
None == Image("None", "None", <<>>)

PhotoImage == Image("photo", "RGB", <<200, 30, 90>>)
LogoImage  == Image("logo", "RGBA", <<200, 30, 90, 128>>)
GrayImage  == Image("gray", "LA", <<40, 100>>)
CmykImage  == Image("cmyk", "CMYK", <<10, 200, 0, 60>>)
\* a text file renamed .png
NotAnImage == Image("notes", "text", <<>>)

Upload(name, content) == [name |-> name, content |-> content]

\* the file_uploader's value before anything is uploaded
NoFile == Upload(<<>>, None)

\* no download button rendered
NoDownload == [data |-> None, file_name |-> <<>>, mime |-> <<>>]

Uploads ==
    {Upload(PhotoJpeg, PhotoImage),
     Upload(<<"l", "o", "g", "o", ".", "p", "n", "g">>, LogoImage),
     Upload(<<"g", "r", "a", "y", ".", "p", "n", "g">>, GrayImage),
     Upload(<<"c", "m", "y", "k", ".", "j", "p", "g">>, CmykImage),
     Upload(<<"n", "o", "t", "e", "s", ".", "p", "n", "g">>, NotAnImage)}
    \cup {Upload(n, PhotoImage) : n \in Names}

Srcs == {"photo", "logo", "gray", "cmyk"}

\* alpha values the removal capability may give the pixel
AlphaLevels == {0, 128}

VARIABLES
    REMBG_AVAILABLE,  \* line 5-9: whether rembg could be imported
    cache,            \* st.cache_data entries of remove_background_from_bytes
    uploaded_file,    \* the file_uploader widget's value
    format_select,    \* the selectbox widget's value (key "format_select")
    pc,               \* position of the running script
    input_image,      \* line 55
    output_image,     \* line 66
    download_format,  \* line 79
    screen,           \* elements rendered in this run
    errors,           \* st.error / st.warning messages of this run
    fault,            \* an exception left the script
    download,         \* the download button's data, file_name and mime
    runs,             \* script runs so far
    log,              \* history: the steps of this run, in order
    resultOf,         \* history: the input the returned result was computed on
    invoked,          \* history: calls of the capability, per input
    calls,            \* history: calls of remove_background_from_bytes, per input
    results,          \* history: values returned, per input
    failedKeys        \* history: cache keys whose computation raised

vars == <<REMBG_AVAILABLE, cache, uploaded_file, format_select, pc, input_image,
          output_image, download_format, screen, errors, fault, download, runs,
          log, resultOf, invoked, calls, results, failedKeys>>

Max(S) == CHOOSE x \in S : \A y \in S : y <= x

\* ------------------------------------------------------------ pure helpers
\* str.lower() on the characters a format name has
LowerChar(c) ==
    CASE c = "P" -> "p"
      [] c = "N" -> "n"
      [] c = "G" -> "g"
      [] c = "J" -> "j"
      [] OTHER -> c

Lower(s) == [i \in 1..Len(s) |-> LowerChar(s[i])]

\* str.rfind, 1-based: 0 when c does not occur
RFind(p, c) ==
    LET I == {i \in 1..Len(p) : p[i] = c}
    IN  IF I = {} THEN 0 ELSE Max(I)

splitextNoLeadingDots(p) ==
    LET dotIndex == RFind(p, ExtSep)
    IN  IF dotIndex > RFind(p, Sep)
        THEN <<SubSeq(p, 1, dotIndex - 1), SubSeq(p, dotIndex, Len(p))>>
        ELSE <<p, <<>>>>

\* os.path.splitext: split at the last dot after the last separator, unless
\* only dots come before it
splitext(p) ==
    LET sepIndex == RFind(p, Sep)
        dotIndex == RFind(p, ExtSep)
    IN  IF /\ dotIndex > sepIndex
           /\ \E i \in (sepIndex + 1)..(dotIndex - 1) : p[i] # ExtSep
        THEN <<SubSeq(p, 1, dotIndex - 1), SubSeq(p, dotIndex, Len(p))>>
        ELSE <<p, <<>>>>

\* line 87
output_filename(name, fmt) == Prefix \o splitext(name)[1] \o <<ExtSep>> \o Lower(fmt)

\* line 88
save_format(fmt) == IF fmt = JPG THEN "JPEG" ELSE "PNG"

\* line 108
mime(fmt) == <<"i", "m", "a", "g", "e", "/">> \o Lower(fmt)

\* Pillow's rounded division by 255
Div255(x) == LET t == x + 128 IN ((t \div 256) + t) \div 256

Clip8(x) == IF x < 0 THEN 0 ELSE IF x > 255 THEN 255 ELSE x

\* Image.convert('RGB') of one pixel
ConvertRGB(img) ==
    CASE img.mode = "RGB"  -> img.px
      [] img.mode = "RGBA" -> SubSeq(img.px, 1, 3)
      [] img.mode = "L"    -> <<img.px[1], img.px[1], img.px[1]>>
      [] img.mode = "LA"   -> <<img.px[1], img.px[1], img.px[1]>>
      [] img.mode = "CMYK" ->
            LET nk == 255 - img.px[4]
            IN  [i \in 1..3 |-> Clip8(nk - Div255(img.px[i] * nk))]
      [] OTHER -> <<>>

\* bg.paste(im, mask): the pixel of im blended onto bg by the mask
Paste(bg, fg, mask) == [i \in 1..3 |-> Div255(fg[i] * mask + bg[i] * (255 - mask))]

\* ---------------------------------------------------------------- encoder
\* lines 90-102: the image written to buf_out, or a raised exception
Encode(img, sf) ==
    IF img = None
    THEN [ok |-> FALSE, data |-> None]
    ELSE IF sf = "JPEG"
    THEN IF img.mode = "RGBA"
         THEN [ok |-> TRUE,
               data |-> Image(img.src, "RGB",
                              Paste(<<White, White, White>>, img.px, img.px[4]))]
         ELSE [ok |-> TRUE, data |-> Image(img.src, "RGB", ConvertRGB(img))]
    ELSE IF img.mode \in PngModes
         THEN [ok |-> TRUE, data |-> img]
         ELSE [ok |-> FALSE, data |-> None]

prepare_downloadSameMessage(img, fmt, name) ==
    LET r == Encode(img, save_format(fmt))
    IN  IF r.ok
        THEN [ok |-> TRUE, msgs |-> {},
              button |-> [data |-> r.data, file_name |-> output_filename(name, fmt),
                          mime |-> mime(fmt)]]
        ELSE [ok |-> FALSE, msgs |-> {ErrProcess}, button |-> NoDownload]

\* lines 85-112: the download button, or the message of the except branch
prepare_download(img, fmt, name) ==
    LET r == Encode(img, save_format(fmt))
    IN  IF r.ok
        THEN [ok |-> TRUE, msgs |-> {},
              button |-> [data |-> r.data, file_name |-> output_filename(name, fmt),
                          mime |-> mime(fmt)]]
        ELSE [ok |-> FALSE, msgs |-> {ErrDownload}, button |-> NoDownload]

\* ---------------------------------------------------------------- adapter
Outcome(raised, value, msgs) == [raised |-> raised, value |-> value, msgs |-> msgs]

remove_placeholderNone(img) == Outcome(FALSE, None, {ErrNotFound})

\* lines 11-15: the fallback defined when rembg cannot be imported
remove_placeholder(img) == Outcome(FALSE, img, {ErrNotFound})

\* rembg.remove, a black box: it raises, or returns the image with an alpha
\* channel
rembg_remove(img) ==
    {Outcome(TRUE, None, {})}
    \cup {Outcome(FALSE, Image(img.src, "RGBA", ConvertRGB(img) \o <<a>>), {})
          : a \in AlphaLevels}

\* lines 5-15: what a call of remove may do
remove(img, available) ==
    IF available THEN rembg_remove(img) ELSE {remove_placeholder(img)}

remove_background_from_bytesNoExcept(o) ==
    IF o.raised
    THEN [value |-> None, msgs |-> o.msgs, propagated |-> TRUE]
    ELSE [value |-> o.value, msgs |-> o.msgs, propagated |-> FALSE]

\* lines 30-40, given what the call of remove at line 35 did
remove_background_from_bytes(o) ==
    IF o.raised
    THEN [value |-> None, msgs |-> o.msgs \cup {ErrRemoval}, propagated |-> FALSE]
    ELSE [value |-> o.value, msgs |-> o.msgs, propagated |-> FALSE]

\* ------------------------------------------------------------------ cache
\* line 29-30: st.cache_data keys a call by the function and its hashed
\* arguments; _image_bytes starts with an underscore and is not hashed
CacheKey(img) == <<"remove_background_from_bytes">>

Cached(c, k) == \E e \in c : e.key = k

CacheLookup(c, k) == (CHOOSE e \in c : e.key = k).entry

CacheStoreNothing(c, k, entry) == c

CacheStoreSuccess(c, k, entry) ==
    IF entry.value = None THEN c
    ELSE {e \in c : e.key # k} \cup {[key |-> k, entry |-> entry]}

CacheStore(c, k, entry) == {e \in c : e.key # k} \cup {[key |-> k, entry |-> entry]}

\* line 70: truth value of output_image
ShowProcessedAlways(img) == TRUE

ShowProcessed(img) == img # None

Decodable(f) == f.content.mode # "text"

\* ---------------------------------------------------------------- actions
\* the page is loaded: the first run of the script starts, nothing uploaded
Init ==
    /\ REMBG_AVAILABLE \in BOOLEAN
    /\ cache = {}
    /\ uploaded_file = NoFile
    /\ format_select = PNG
    /\ pc = "script"
    /\ input_image = None
    /\ output_image = None
    /\ download_format = PNG
    /\ screen = {}
    /\ errors = {}
    /\ fault = FALSE
    /\ download = NoDownload
    /\ runs = 1
    /\ log = <<>>
    /\ resultOf = "None"
    /\ invoked = [s \in Srcs |-> 0]
    /\ calls = [s \in Srcs |-> 0]
    /\ results = [s \in Srcs |-> {}]
    /\ failedKeys = {}

\* a widget changed: Streamlit runs the script again from the top
Rerun ==
    /\ pc = "done"
    /\ runs < MaxRuns
    /\ pc' = "script"
    /\ runs' = runs + 1
    /\ input_image' = None
    /\ output_image' = None
    /\ download_format' = PNG
    /\ screen' = {}
    /\ errors' = {}
    /\ fault' = FALSE
    /\ download' = NoDownload
    /\ log' = <<>>
    /\ resultOf' = "None"
    /\ UNCHANGED <<REMBG_AVAILABLE, cache, invoked, calls, results, failedKeys>>

\* lines 47-51: the user uploads a file the type filter accepts
UploadFile(f) ==
    /\ f # uploaded_file
    /\ uploaded_file' = f
    /\ UNCHANGED format_select
    /\ Rerun

\* lines 47-51: the user removes the uploaded file
RemoveFile ==
    /\ uploaded_file # NoFile
    /\ uploaded_file' = NoFile
    /\ UNCHANGED format_select
    /\ Rerun

\* lines 79-83: the user picks another download format
SelectFormat(fmt) ==
    /\ "selectbox" \in screen
    /\ fmt # format_select
    /\ format_select' = fmt
    /\ UNCHANGED uploaded_file
    /\ Rerun

\* a widget that a run does not render loses its value
WidgetCleanup == format_select' = IF "selectbox" \in screen THEN format_select ELSE PNG

\* lines 53, 118-119: nothing uploaded
NoUpload ==
    /\ pc = "script"
    /\ uploaded_file = NoFile
    /\ screen' = screen \cup {"info"}
    /\ pc' = "sidebar"
    /\ UNCHANGED <<REMBG_AVAILABLE, cache, uploaded_file, format_select, input_image,
                   output_image, download_format, errors, fault, download, runs, log,
                   resultOf, invoked, calls, results, failedKeys>>

\* lines 55-61: Image.open succeeds, the original is shown
OpenImage ==
    /\ pc = "script"
    /\ uploaded_file # NoFile
    /\ Decodable(uploaded_file)
    /\ input_image' = uploaded_file.content
    /\ screen' = screen \cup {"original"}
    /\ log' = Append(log, "decoded")
    /\ pc' = "remove"
    /\ UNCHANGED <<REMBG_AVAILABLE, cache, uploaded_file, format_select, output_image,
                   download_format, errors, fault, download, runs, resultOf, invoked,
                   calls, results, failedKeys>>

\* line 55: Image.open raises UnidentifiedImageError; nothing catches it and
\* the rest of the script does not run
OpenImageRaises ==
    /\ pc = "script"
    /\ uploaded_file # NoFile
    /\ ~Decodable(uploaded_file)
    /\ fault' = TRUE
    /\ pc' = "done"
    /\ WidgetCleanup
    /\ UNCHANGED <<REMBG_AVAILABLE, cache, uploaded_file, input_image, output_image,
                   download_format, screen, errors, download, runs, log, resultOf,
                   invoked, calls, results, failedKeys>>

\* lines 64-66, cache hit: the stored value is returned and the st.error
\* calls of the stored computation are replayed
CacheHit ==
    /\ pc = "remove"
    /\ Cached(cache, CacheKey(input_image))
    /\ LET e == CacheLookup(cache, CacheKey(input_image))
       IN  /\ output_image' = e.value
           /\ errors' = errors \cup e.msgs
           /\ resultOf' = e.of
           /\ results' = [results EXCEPT ![input_image.src] = @ \cup {e.value}]
           /\ log' = Append(log, IF e.value = None THEN "failure" ELSE "success")
    /\ calls' = [calls EXCEPT ![input_image.src] = @ + 1]
    /\ pc' = "display"
    /\ UNCHANGED <<REMBG_AVAILABLE, cache, uploaded_file, format_select, input_image,
                   download_format, screen, fault, download, runs, invoked, failedKeys>>

\* lines 64-66, cache miss: remove_background_from_bytes runs and its return
\* value is stored
CacheMiss ==
    /\ pc = "remove"
    /\ ~Cached(cache, CacheKey(input_image))
    /\ \E o \in remove(input_image, REMBG_AVAILABLE) :
         LET r == remove_background_from_bytes(o)
             k == CacheKey(input_image)
             steps == <<"invoke">> \o (IF o.raised THEN <<"raised">> ELSE <<>>)
         IN  /\ errors' = errors \cup r.msgs
             /\ failedKeys' = IF o.raised THEN failedKeys \cup {k} ELSE failedKeys
             /\ IF r.propagated
                THEN /\ fault' = TRUE
                     /\ pc' = "done"
                     /\ log' = log \o steps
                     /\ WidgetCleanup
                     /\ UNCHANGED <<cache, output_image, resultOf, results>>
                ELSE /\ cache' = CacheStore(cache, k,
                                   [value |-> r.value, msgs |-> r.msgs,
                                    of |-> input_image.src])
                     /\ output_image' = r.value
                     /\ resultOf' = input_image.src
                     /\ results' = [results EXCEPT ![input_image.src] = @ \cup {r.value}]
                     /\ log' = log \o steps
                                \o <<IF r.value = None THEN "failure" ELSE "success">>
                     /\ pc' = "display"
                     /\ UNCHANGED <<fault, format_select>>
    /\ invoked' = [invoked EXCEPT ![input_image.src] = @ + 1]
    /\ calls' = [calls EXCEPT ![input_image.src] = @ + 1]
    /\ UNCHANGED <<REMBG_AVAILABLE, uploaded_file, input_image, download_format,
                   screen, download, runs>>

\* lines 69-83: the processed image and the format selectbox are shown
DisplayProcessed ==
    /\ pc = "display"
    /\ ShowProcessed(output_image)
    /\ screen' = screen \cup {"processed", "selectbox"}
    /\ download_format' = format_select
    /\ pc' = "encode"
    /\ UNCHANGED <<REMBG_AVAILABLE, cache, uploaded_file, format_select, input_image,
                   output_image, errors, fault, download, runs, log, resultOf,
                   invoked, calls, results, failedKeys>>

\* lines 114-116: remove_background_from_bytes returned None
DisplayFailure ==
    /\ pc = "display"
    /\ ~ShowProcessed(output_image)
    /\ errors' = errors \cup {ErrProcess}
    /\ pc' = "sidebar"
    /\ UNCHANGED <<REMBG_AVAILABLE, cache, uploaded_file, format_select, input_image,
                   output_image, download_format, screen, fault, download, runs, log,
                   resultOf, invoked, calls, results, failedKeys>>

\* lines 85-112: the image is encoded and the download button rendered, or
\* the except branch reports the error
PrepareDownload ==
    /\ pc = "encode"
    /\ LET d == prepare_download(output_image, download_format, uploaded_file.name)
       IN  /\ errors' = errors \cup d.msgs
           /\ download' = d.button
           /\ screen' = IF d.ok THEN screen \cup {"download"} ELSE screen
           /\ log' = log \o (IF d.ok THEN <<"encode", "encoded", "download">>
                                      ELSE <<"encode", "encode failed">>)
    /\ pc' = "sidebar"
    /\ UNCHANGED <<REMBG_AVAILABLE, cache, uploaded_file, format_select, input_image,
                   output_image, download_format, fault, runs, resultOf, invoked,
                   calls, results, failedKeys>>

\* lines 121-136: the sidebar, with a warning when rembg is missing
Sidebar ==
    /\ pc = "sidebar"
    /\ errors' = IF REMBG_AVAILABLE THEN errors ELSE errors \cup {WarnNotFound}
    /\ pc' = "done"
    /\ WidgetCleanup
    /\ UNCHANGED <<REMBG_AVAILABLE, cache, uploaded_file, input_image, output_image,
                   download_format, screen, fault, download, runs, log, resultOf,
                   invoked, calls, results, failedKeys>>

Next ==
    \/ \E f \in Uploads : UploadFile(f)
    \/ RemoveFile
    \/ \E fmt \in Formats : SelectFormat(fmt)
    \/ NoUpload
    \/ OpenImage
    \/ OpenImageRaises
    \/ CacheHit
    \/ CacheMiss
    \/ DisplayProcessed
    \/ DisplayFailure
    \/ PrepareDownload
    \/ Sidebar

Spec == Init /\ [][Next]_vars

\* ----------------------------------------------------------------- claims
Range(q) == {q[i] : i \in 1..Len(q)}

Occurrences(q, x) == Cardinality({i \in 1..Len(q) : q[i] = x})

Before(q, x, i) == \E j \in 1..(i - 1) : q[j] = x

\* C1 (as claimed): the result remove_background_from_bytes returns in a run
\* was computed by the removal capability on that run's own input; a result
\* cached for one input is never returned for another input.
CacheKeyedByInput == resultOf # "None" => resultOf = input_image.src

\* C2: over repeated runs with the same input the same result is returned
\* every time, and the capability is invoked at most once for that input.
CacheCorrectness ==
    \A s \in Srcs : invoked[s] <= 1 /\ Cardinality(results[s]) <= 1

\* C2 witness: an input was run twice, the second time after the download
\* format was changed, and the capability ran once.
RerunServedFromCache ==
    \E s \in Srcs :
        /\ calls[s] >= 2
        /\ invoked[s] = 1
        /\ Cardinality(results[s]) = 1
        /\ format_select = JPG
        /\ pc = "done"

\* C3 (as claimed): an upload that does not decode is reported, the run halts
\* without a removal call or processed output, and no exception leaves the
\* script.
DecodeErrorHandled ==
    (pc = "done" /\ uploaded_file # NoFile /\ ~Decodable(uploaded_file))
        => /\ fault = FALSE
           /\ errors # {}
           /\ "invoke" \notin Range(log)
           /\ "processed" \notin screen
           /\ download = NoDownload

RemovalFailureCaught ==
    "raised" \in Range(log)
        => /\ fault = FALSE
           /\ output_image = None
           /\ ErrRemoval \in errors
           /\ "original" \in screen
           /\ "processed" \notin screen
           /\ "encode" \notin Range(log)
           /\ download = NoDownload
           /\ pc \in {"display", "sidebar", "done"}

\* C5 witness: a run in which the capability raised has finished.
RemovalFailureRunDone ==
    /\ "raised" \in Range(log)
    /\ pc = "done"
    /\ ErrProcess \in errors

\* exact round(fg*a + 255*(1-a)) with a = alpha/255
RoundComposite(fg, alpha) == (2 * (fg * alpha + 255 * (255 - alpha)) + 255) \div 510

\* C6 (as claimed): the JPG export of a processed image with an alpha
\* channel, in any mode carrying alpha, is a 3-channel image composited over
\* white; without alpha the colour values are the input's.
JpgCompositesAlpha ==
    (download # NoDownload /\ download_format = JPG)
        => /\ download.data.mode = "RGB"
           /\ Len(download.data.px) = 3
           /\ output_image.mode = "RGBA" =>
                \A i \in 1..3 : download.data.px[i]
                                  = RoundComposite(output_image.px[i], output_image.px[4])
           /\ output_image.mode = "LA" =>
                \A i \in 1..3 : download.data.px[i]
                                  = RoundComposite(output_image.px[1], output_image.px[2])
           /\ output_image.mode = "RGB" => download.data.px = output_image.px

\* C7: an encoding error is reported with its own message, no exception
\* leaves the script, the processed image stays shown and only the download
\* is missing.
EncodeErrorReported ==
    "encode failed" \in Range(log)
        => /\ ErrDownload \in errors
           /\ ErrProcess \notin errors
           /\ ErrRemoval \notin errors
           /\ fault = FALSE
           /\ "processed" \in screen
           /\ "download" \notin screen
           /\ download = NoDownload
           /\ pc \in {"sidebar", "done"}

\* C7 witness: a run whose encoding failed has finished.
EncodeErrorRunDone ==
    /\ "encode failed" \in Range(log)
    /\ pc = "done"

\* the lowercase extension of a format, written out
ExtensionOf(fmt) == IF fmt = PNG THEN <<"p", "n", "g">> ELSE <<"j", "p", "g">>

\* the name up to its last dot
StripFinalExtension(n) ==
    LET dots == {i \in 1..Len(n) : n[i] = "."}
    IN  IF dots = {} THEN n ELSE SubSeq(n, 1, Max(dots) - 1)

OnlyDotsBeforeLastDot(n) ==
    LET dots == {i \in 1..Len(n) : n[i] = "."}
    IN  dots # {} /\ \A i \in 1..(Max(dots) - 1) : n[i] = "."

\* C8 (as claimed): the download is named bg_removed_<base>.<ext>, <base> the
\* upload name without its final extension, <ext> the format in lowercase.
FilenameStripsFinalExtension ==
    download # NoDownload
        => download.file_name
             = Prefix \o StripFinalExtension(uploaded_file.name) \o <<".">>
                      \o ExtensionOf(download_format)

\* C8 (amended): as claimed, except that a name with nothing but dots before
\* its last dot (.png) is kept whole; photo.jpeg gives bg_removed_photo.png
\* and bg_removed_photo.jpg.
FilenameKeepsLeadingDots ==
    download # NoDownload
        => /\ download.file_name
                = Prefix
                  \o (IF OnlyDotsBeforeLastDot(uploaded_file.name)
                      THEN uploaded_file.name
                      ELSE StripFinalExtension(uploaded_file.name))
                  \o <<".">> \o ExtensionOf(download_format)
           /\ uploaded_file.name = PhotoJpeg =>
                download.file_name
                    = <<"b", "g", "_", "r", "e", "m", "o", "v", "e", "d", "_",
                        "p", "h", "o", "t", "o", ".">>
                      \o (IF download_format = PNG THEN <<"p", "n", "g">>
                                                   ELSE <<"j", "p", "g">>)

\* C8 witness: a download was offered for an upload named with only dots
\* before the extension.
DotNameDownload ==
    /\ download # NoDownload
    /\ OnlyDotsBeforeLastDot(uploaded_file.name)
    /\ download_format = JPG

\* C9: in every run the capability is invoked only after the upload decoded
\* and at most once, the encoder runs only after a success result and at
\* most once, and a download is offered only after encoding succeeded.
LinearOrder ==
    /\ \A i \in 1..Len(log) :
         /\ log[i] = "invoke" => Before(log, "decoded", i)
         /\ log[i] = "encode" => Before(log, "success", i)
         /\ log[i] = "download" => Before(log, "encoded", i)
    /\ \A x \in {"decoded", "invoke", "encode", "download"} : Occurrences(log, x) <= 1
    /\ pc = "remove" => "decoded" \in Range(log)
    /\ pc = "encode" => "success" \in Range(log)
    /\ download # NoDownload => "encoded" \in Range(log)

\* C9 witness: a run went through every step once, in order.
FullRunDone ==
    /\ pc = "done"
    /\ log = <<"decoded", "invoke", "success", "encode", "encoded", "download">>

\* C10: once the capability raised for a cache key, every later call with
\* that key returns None again without invoking the capability.
FailureMemoized ==
    [][(pc = "remove" /\ CacheKey(input_image) \in failedKeys)
           => (output_image' = None /\ invoked' = invoked /\ cache' = cache)]_vars

\* C10 witness: a run got None from the cache, without a call of the
\* capability, after an earlier run's call raised.
FailureServedFromCache ==
    /\ pc = "display"
    /\ failedKeys # {}
    /\ "invoke" \notin Range(log)
    /\ "failure" \in Range(log)
    /\ output_image = None

====
